---- MODULE Spec2Model ----
(***************************************************************************)
(* Webhook ingestion service (FastAPI + SQLModel): POST /webhook,          *)
(* GET /messages, GET /stats, GET /health/live, GET /health/ready, the     *)
(* log_requests middleware and the messages table.                        *)
(*                                                                         *)
(* The handler of POST /webhook is "async def" and calls the synchronous   *)
(* insert_message, so inside one server process a request runs from the    *)
(* first gate to the response without yielding.  Several server processes  *)
(* (workers) share the database; they interleave at the database round     *)
(* trips of insert_message: the SELECT (storage.py:13-14) and the          *)
(* INSERT/COMMIT (storage.py:27-28).                                       *)
(***************************************************************************)
EXTENDS Integers, Sequences, FiniteSets, TLC

\* ------------------------------------------------------------------ bounds
NumWorkers == 2
NumMsgIds == 2

Workers == 1..NumWorkers

\* ------------------------------------------------------- values and inputs
\* Python's None where it is stored in the audit record.
None == "None"

\* text: str | None.  A present text is a run-length encoded string, a
\* sequence of <<character, count>> runs.
NoText == [some |-> FALSE, runs |-> <<>>]
SomeText(runs) == [some |-> TRUE, runs |-> runs]

RECURSIVE TextLen(_)
TextLen(runs) == IF runs = <<>> THEN 0 ELSE Head(runs)[2] + TextLen(Tail(runs))

\* Field(max_length=4096)
MaxTextLength == 4096

Digits == {"0", "1", "2", "3", "4", "5", "6", "7", "8", "9"}

\* E164Phone = Annotated[str, Field(pattern=r"^\+\d+$")]; a phone number is
\* a sequence of characters.
E164Phone(s) ==
    /\ Len(s) >= 2
    /\ s[1] = "+"
    /\ \A i \in 2..Len(s) : s[i] \in Digits

\* A timestamp string is its fixed-width date-time fields and its suffix:
\* [core |-> <<year, month, day, hour, minute, second>>, suffix |-> "Z"].
IsLeap(y) == (y % 4 = 0 /\ y % 100 # 0) \/ y % 400 = 0

DaysInMonth(y, m) ==
    IF m = 2 THEN (IF IsLeap(y) THEN 29 ELSE 28)
    ELSE IF m \in {4, 6, 9, 11} THEN 30 ELSE 31

\* v.replace("Z", "+00:00")
ReplaceZ(v) == [v EXCEPT !.suffix = IF @ = "Z" THEN "+00:00" ELSE @]

\* datetime.datetime.fromisoformat(s) does not raise ValueError
FromIsoFormat(v) ==
    /\ Len(v.core) = 6
    /\ v.core[1] \in 1..9999
    /\ v.core[2] \in 1..12
    /\ v.core[3] \in 1..DaysInMonth(v.core[1], v.core[2])
    /\ v.core[4] \in 0..23
    /\ v.core[5] \in 0..59
    /\ v.core[6] \in 0..59
    /\ v.suffix \in {"", "+00:00"}

\* field_validator("ts")
validate_ts_strict_z(v) ==
    /\ v.suffix = "Z"
    /\ FromIsoFormat(ReplaceZ(v))

\* The message ids, senders, timestamps and texts the requests draw from.
MsgIds == {<<"m", i>> : i \in 1..NumMsgIds}
\* The empty string as a message_id.
EmptyId == <<>>
Plus1 == <<"+", "1">>
Plus2 == <<"+", "2">>
Plus9 == <<"+", "9">>
Ts1 == [core |-> <<2025, 1, 15, 10, 0, 0>>, suffix |-> "Z"]
Hello == SomeText(<<<<"H", 1>>, <<"i", 1>>>>)

\* Raw request bodies (JSON objects with the wire names "from" and "to";
\* pad counts insignificant trailing whitespace bytes).
MkBody(id, f, t, ts, txt) ==
    [message_id |-> id, from |-> f, to |-> t, ts |-> ts, text |-> txt, pad |-> 0]

ValidBodies ==
    {MkBody(id, Plus1, Plus9, Ts1, Hello) : id \in MsgIds}
        \cup {MkBody(id, Plus2, Plus9, Ts1, NoText) : id \in MsgIds}

InvalidBodies ==
    { MkBody(<<"m", 1>>, <<"1">>, Plus9, Ts1, Hello),
      MkBody(<<"m", 1>>, Plus1, <<"+", "9", "a">>, Ts1, Hello),
      MkBody(<<"m", 1>>, Plus1, Plus9, [Ts1 EXCEPT !.suffix = "+00:00"], Hello),
      MkBody(<<"m", 1>>, Plus1, Plus9, [Ts1 EXCEPT !.core[2] = 13], Hello),
      MkBody(<<"m", 1>>, Plus1, Plus9, Ts1, SomeText(<<<<"x", MaxTextLength + 1>>>>)) }

Bodies == ValidBodies \cup InvalidBodies

\* A body that is well formed in every field and whose message_id is "".
EmptyIdBody == MkBody(EmptyId, Plus1, Plus9, Ts1, Hello)

\* The body with one more byte: what a body altered after signing looks like.
Altered(b) == [b EXCEPT !.pad = @ + 1]

\* WebhookPayload accepts the body
PayloadValid(b) ==
    /\ E164Phone(b.from)
    /\ E164Phone(b.to)
    /\ validate_ts_strict_z(b.ts)
    /\ (b.text.some => TextLen(b.text.runs) <= MaxTextLength)

\* WebhookPayload(**json): the parsed model, with the aliases resolved
WebhookPayload(b) ==
    [message_id |-> b.message_id, from_msisdn |-> b.from, to_msisdn |-> b.to,
     ts |-> b.ts, text |-> b.text]

\* Signatures.  A header value is a record; hex digests carry the key and
\* the message they were computed over (HMAC-SHA256 taken as collision
\* free).
ConfiguredSecret == "s3cr3t"
OtherKey == "guess"
NoSecret == ""

HexDigest(key, msg) == [kind |-> "hex", digest |-> <<key, msg>>]
EmptySig == [kind |-> "empty", digest |-> <<>>]
TextSig == [kind |-> "ascii", digest |-> <<>>]
NonAsciiSig == [kind |-> "nonascii", digest |-> <<>>]

\* The X-Signature header of a request: <<>> when absent, <<value>> when sent.
SigsFor(b) ==
    { <<>>, <<EmptySig>>, <<TextSig>>, <<NonAsciiSig>>,
      <<HexDigest(ConfiguredSecret, b)>>,
      <<HexDigest(OtherKey, b)>>,
      <<HexDigest(ConfiguredSecret, Altered(b))>> }

WebhookRequests ==
    UNION {{[method |-> "POST", path |-> "/webhook", body |-> <<b>>, sig |-> s,
             query |-> <<>>] : s \in SigsFor(b)} : b \in Bodies}

EmptyIdRequests ==
    {[method |-> "POST", path |-> "/webhook", body |-> <<EmptyIdBody>>, sig |-> s,
      query |-> <<>>] : s \in SigsFor(EmptyIdBody)}

\* ------------------------------------------------------------------- state
VARIABLES
    secret,   \* os.getenv("WEBHOOK_SECRET") of the deployment
    store,    \* the messages table: the committed rows, in insertion order
    pc,       \* per worker: "idle", or "selected" between SELECT and COMMIT
    cur,      \* per worker: the request whose insert_message is in progress
    last,     \* the exchange just completed, <<[req, resp, audit]>>, until
              \* its response has left the server; <<>> otherwise
    created   \* the message ids of the audit lines printed so far with
              \* result "created", in the order they were printed

vars == <<secret, store, pc, cur, last, created>>

\* ----------------------------------------------------- responses and audit
\* return {"status": "ok"}
OkResponse == [status |-> 200, key |-> "status", val |-> "ok", data |-> <<>>]

\* raise HTTPException(status_code, detail), as rendered by FastAPI
HTTPException(status_code, detail) ==
    [status |-> status_code, key |-> "detail", val |-> detail, data |-> <<>>]

\* FastAPI's answer to a request whose declared parameters do not validate
\* (a missing required header, a body WebhookPayload rejects, a bad query)
RequestValidationError ==
    [status |-> 422, key |-> "detail", val |-> "request_validation_errors", data |-> <<>>]

\* The server's answer when the handler raises something nobody handles
ServerError ==
    [status |-> 500, key |-> "text", val |-> "Internal Server Error", data |-> <<>>]

\* JSONResponse(content, status_code)
JSONResponse(content, status_code) ==
    [status |-> status_code, key |-> "content", val |-> content, data |-> <<>>]

\* log_requests: the record printed after call_next returned `response`;
\* extra is request.state.extra_info, <<>> when the handler never set it.
log_data(request, response, extra) ==
    [level |-> IF response.status < 400 THEN "INFO" ELSE "ERROR",
     method |-> request.method,
     path |-> request.path,
     status |-> response.status,
     extra |-> extra]

\* What the middleware and the server make of a handler's outcome: when the
\* handler raised an unhandled exception, call_next re-raises it inside
\* log_requests, nothing is printed and the server answers 500.
log_requests(request, out) ==
    IF out.raised
    THEN [req |-> request, resp |-> ServerError, audit |-> <<>>]
    ELSE [req |-> request, resp |-> out.resp,
          audit |-> <<log_data(request, out.resp, out.extra)>>]

\* print(json.dumps(log_data)): the lines printed with result "created"
Printed(lines, exchange) ==
    IF /\ exchange.audit # <<>>
       /\ exchange.audit[1].extra # <<>>
       /\ exchange.audit[1].extra[1].result = "created"
    THEN Append(lines, exchange.audit[1].extra[1].message_id)
    ELSE lines

Responded(resp, extra) == [raised |-> FALSE, pass |-> FALSE, resp |-> resp, extra |-> extra]
Raised == [raised |-> TRUE, pass |-> FALSE, resp |-> ServerError, extra |-> <<>>]
Passed == [raised |-> FALSE, pass |-> TRUE, resp |-> OkResponse, extra |-> <<>>]

\* ------------------------------------------------------------ POST /webhook
is_webhook_secret_set(sec) == sec # NoSecret

\* hmac.new(key, msg, sha256).hexdigest()
expected_signature(sec, body) == HexDigest(sec, body)

\* hmac.compare_digest(a, b) on two str raises TypeError when either holds a
\* non-ASCII character.
CompareDigestRaises(a, b) == a.kind = "nonascii" \/ b.kind = "nonascii"
compare_digest(a, b) == a = b

extra_info(result, payload) ==
    <<[result |-> result, dup |-> (result = "duplicate"),
       message_id |-> payload.message_id]>>

\* FastAPI resolves the declared parameters before it calls the handler:
\* payload: WebhookPayload and x_signature: Annotated[str, Header()].
ParametersValid(request) ==
    /\ request.sig # <<>>
    /\ PayloadValid(request.body[1])

\* Mutant of webhook_gates: the handler without its compare_digest gate.
webhook_gates_unverified(request, sec) ==
    IF ~ParametersValid(request)
    THEN Responded(RequestValidationError, <<>>)
    ELSE LET payload == WebhookPayload(request.body[1])
             x_signature == request.sig[1]
         IN  IF ~is_webhook_secret_set(sec)
             THEN Responded(HTTPException(401, "webhook missing"),
                            extra_info("webhook missing", payload))
             ELSE IF x_signature.kind = "empty"
             THEN Responded(HTTPException(401, "invalid_signature"),
                            extra_info("invalid_signature", payload))
             ELSE Passed

\* The handler from its first gate to the call of insert_message.
webhook_gates(request, sec) ==
    IF ~ParametersValid(request)
    THEN Responded(RequestValidationError, <<>>)
    ELSE LET body_bytes == request.body[1]
             payload == WebhookPayload(body_bytes)
             x_signature == request.sig[1]
         IN  IF ~is_webhook_secret_set(sec)
             THEN Responded(HTTPException(401, "webhook missing"),
                            extra_info("webhook missing", payload))
             ELSE IF x_signature.kind = "empty"
             THEN Responded(HTTPException(401, "invalid_signature"),
                            extra_info("invalid_signature", payload))
             ELSE IF CompareDigestRaises(expected_signature(sec, body_bytes), x_signature)
             THEN Raised
             ELSE IF ~compare_digest(expected_signature(sec, body_bytes), x_signature)
             THEN Responded(HTTPException(401, "invalid_signature"),
                            extra_info("invalid_signature", payload))
             ELSE Passed

\* Mutant of existing_message: a SELECT that never finds the row.
existing_message_blind(st, payload) == FALSE

\* insert_message, first round trip: select(messages).where(message_id == ...)
existing_message(st, payload) ==
    \E i \in DOMAIN st : st[i].message_id = payload.message_id

\* Mutant of PrimaryKeyConflict: a table without the primary key.
NoPrimaryKey(st, row) == FALSE

\* message_id: str = Field(primary_key=True): the INSERT of a second row
\* with a stored message_id fails with IntegrityError.
PrimaryKeyConflict(st, row) ==
    \E i \in DOMAIN st : st[i].message_id = row.message_id

\* messages(message_id=..., from_msisdn=..., to_msisdn=..., ts=..., text=...)
NewRow(payload) ==
    [message_id |-> payload.message_id, from_msisdn |-> payload.from_msisdn,
     to_msisdn |-> payload.to_msisdn, ts |-> payload.ts, text |-> payload.text]

\* Mutant of add_and_commit: session.merge(msg) in place of session.add(msg),
\* which overwrites the stored row on a key conflict.
add_and_commit_upsert(st, payload) ==
    IF PrimaryKeyConflict(st, NewRow(payload))
    THEN [store |-> [i \in DOMAIN st |->
                        IF st[i].message_id = payload.message_id
                        THEN NewRow(payload) ELSE st[i]],
          res |-> "created"]
    ELSE [store |-> Append(st, NewRow(payload)), res |-> "created"]

\* Mutant of add_and_commit: the conflict is swallowed and "created" is
\* returned all the same.
add_and_commit_ignore(st, payload) ==
    IF PrimaryKeyConflict(st, NewRow(payload))
    THEN [store |-> st, res |-> "created"]
    ELSE [store |-> Append(st, NewRow(payload)), res |-> "created"]

\* insert_message, second round trip: session.add(msg); session.commit().
\* On IntegrityError the except clause rolls back and falls off the end of
\* the function, which returns None.
add_and_commit(st, payload) ==
    IF PrimaryKeyConflict(st, NewRow(payload))
    THEN [store |-> st, res |-> None]
    ELSE [store |-> Append(st, NewRow(payload)), res |-> "created"]

\* extra_info.update({"result": res, "dup": res == "duplicate"}); return ok
webhook_inserted(payload, res) == Responded(OkResponse, extra_info(res, payload))

\* A worker takes a request through the gates and the SELECT.
WebhookBegin(w, request) ==
    /\ last = <<>>
    /\ pc[w] = "idle"
    /\ LET out == webhook_gates(request, secret)
           payload == WebhookPayload(request.body[1])
       IN  IF ~out.pass
           THEN /\ last' = <<log_requests(request, out)>>
                /\ UNCHANGED <<pc, cur>>
           ELSE IF existing_message(store, payload)
           THEN /\ last' = <<log_requests(request, webhook_inserted(payload, "duplicate"))>>
                /\ UNCHANGED <<pc, cur>>
           ELSE /\ pc' = [pc EXCEPT ![w] = "selected"]
                /\ cur' = [cur EXCEPT ![w] = <<request>>]
                /\ UNCHANGED last
    /\ created' = (IF last' = <<>> THEN created ELSE Printed(created, last'[1]))
    /\ UNCHANGED <<secret, store>>

\* The same, for deliveries of one message id that do not overlap: no other
\* worker is between its SELECT and its COMMIT for the request's message id.
WebhookBeginAlone(w, request) ==
    /\ \A v \in Workers :
           pc[v] = "selected" => cur[v][1].body[1].message_id # request.body[1].message_id
    /\ WebhookBegin(w, request)

\* The worker's INSERT and COMMIT, and the response.
WebhookCommit(w) ==
    /\ last = <<>>
    /\ pc[w] = "selected"
    /\ LET request == cur[w][1]
           payload == WebhookPayload(request.body[1])
           done == add_and_commit(store, payload)
       IN  /\ store' = done.store
           /\ last' = <<log_requests(request, webhook_inserted(payload, done.res))>>
    /\ created' = Printed(created, last'[1])
    /\ pc' = [pc EXCEPT ![w] = "idle"]
    /\ cur' = [cur EXCEPT ![w] = <<>>]
    /\ UNCHANGED secret

\* insert_message when a database round trip raises an SQLAlchemyError other
\* than the key conflict (the connection is lost, the database is locked):
\* the except clause logs, rolls back and returns None, and the handler
\* answers 200.  When session.rollback() raises in its turn the exception
\* leaves insert_message and the handler's except clause answers 500.
insert_failed(payload, rollback_raises) ==
    IF rollback_raises
    THEN Responded(HTTPException(500, "Internal server error"),
                   extra_info("validation_error", payload))
    ELSE webhook_inserted(payload, None)

\* The SELECT of insert_message fails.
WebhookSelectFails(w, request, rollback_raises) ==
    /\ last = <<>>
    /\ pc[w] = "idle"
    /\ webhook_gates(request, secret).pass
    /\ last' = <<log_requests(request,
                   insert_failed(WebhookPayload(request.body[1]), rollback_raises))>>
    /\ created' = Printed(created, last'[1])
    /\ UNCHANGED <<secret, store, pc, cur>>

\* The INSERT or the COMMIT of insert_message fails: nothing is written.
WebhookCommitFails(w, rollback_raises) ==
    /\ last = <<>>
    /\ pc[w] = "selected"
    /\ last' = <<log_requests(cur[w][1],
                   insert_failed(WebhookPayload(cur[w][1].body[1]), rollback_raises))>>
    /\ created' = Printed(created, last'[1])
    /\ pc' = [pc EXCEPT ![w] = "idle"]
    /\ cur' = [cur EXCEPT ![w] = <<>>]
    /\ UNCHANGED <<secret, store>>

\* ------------------------------------------------------------ GET /messages
\* Strings compare lexicographically: timestamps by their fixed-width fields
\* and then their suffix, message ids by their number, the empty id first.
RECURSIVE SeqLess(_, _)
SeqLess(a, b) ==
    IF a = <<>> THEN b # <<>>
    ELSE IF b = <<>> THEN FALSE
    ELSE IF Head(a) # Head(b) THEN Head(a) < Head(b)
    ELSE SeqLess(Tail(a), Tail(b))

SuffixRank(x) == CASE x = "" -> 0 [] x = "+00:00" -> 1 [] OTHER -> 2

TsLess(a, b) ==
    \/ SeqLess(a.core, b.core)
    \/ a.core = b.core /\ SuffixRank(a.suffix) < SuffixRank(b.suffix)

IdLess(a, b) ==
    IF a = <<>> THEN b # <<>>
    ELSE IF b = <<>> THEN FALSE
    ELSE SeqLess(Tail(a), Tail(b))

\* order_by(messages.ts.asc(), messages.message_id.asc())
RowBefore(r1, r2) ==
    \/ TsLess(r1.ts, r2.ts)
    \/ r1.ts = r2.ts /\ IdLess(r1.message_id, r2.message_id)

\* str.lower() on the characters the texts use
Lower(c) == CASE c = "H" -> "h" [] c = "X" -> "x" [] OTHER -> c

RECURSIVE Expand(_)
Expand(runs) ==
    IF runs = <<>> THEN <<>>
    ELSE [i \in 1..Head(runs)[2] |-> Head(runs)[1]] \o Expand(Tail(runs))

\* messages.text.ilike(f"%{q}%"): NULL never matches
ILike(text, q) ==
    /\ text.some
    /\ LET t == Expand(text.runs)
       IN  \E k \in 0..(Len(t) - Len(q)) :
               \A j \in 1..Len(q) : Lower(t[k + j]) = Lower(q[j])

\* Mutant of Matches: the where clause on from_msisdn left out.
Matches_without_from(row, query) ==
    /\ (query.since # <<>> => ~TsLess(row.ts, query.since[1]))
    /\ (query.q # <<>> /\ query.q[1] # <<>> => ILike(row.text, query.q[1]))

\* The WHERE clauses get_messages adds; `if from_msisdn:` and `if q:` add
\* none for an empty string.
Matches(row, query) ==
    /\ (query.from # <<>> /\ query.from[1] # <<>> => row.from_msisdn = query.from[1])
    /\ (query.since # <<>> => ~TsLess(row.ts, query.since[1]))
    /\ (query.q # <<>> /\ query.q[1] # <<>> => ILike(row.text, query.q[1]))

RECURSIVE SelectSeq2(_, _)
SelectSeq2(st, query) ==
    IF st = <<>> THEN <<>>
    ELSE (IF Matches(Head(st), query) THEN <<Head(st)>> ELSE <<>>)
             \o SelectSeq2(Tail(st), query)

\* Mutant of OrderBy: no order_by, the rows come back in insertion order.
OrderBy_insertion(rows) == rows

RECURSIVE OrderBy(_)
OrderBy(rows) ==
    IF rows = <<>> THEN <<>>
    ELSE LET i == CHOOSE i \in DOMAIN rows :
                      \A j \in DOMAIN rows : j # i => ~RowBefore(rows[j], rows[i])
         IN  <<rows[i]>> \o OrderBy([k \in 1..(Len(rows) - 1) |->
                                        IF k < i THEN rows[k] ELSE rows[k + 1]])

\* stmt.offset(offset).limit(limit)
OffsetLimit(rows, offset, limit) ==
    [k \in 1..(IF Len(rows) - offset < 0 THEN 0
               ELSE IF Len(rows) - offset < limit THEN Len(rows) - offset
               ELSE limit) |-> rows[offset + k]]

\* m.model_dump(by_alias=True)
model_dump(row) ==
    [message_id |-> row.message_id, from |-> row.from_msisdn, to |-> row.to_msisdn,
     ts |-> row.ts, text |-> row.text]

\* Query(50, ge=1, le=100), Query(0, ge=0)
LimitMin == 1
LimitMax == 100

\* Mutant of get_messages: total taken after offset and limit were applied.
get_messages_total_of_page(st, query) ==
    IF ~(query.limit >= LimitMin /\ query.limit <= LimitMax /\ query.offset >= 0)
    THEN RequestValidationError
    ELSE IF query.since # <<>> /\ ~FromIsoFormat(ReplaceZ(query.since[1]))
    THEN HTTPException(422, "since must be ISO-8601 UTC timestamp")
    ELSE LET matching == SelectSeq2(st, query)
             data == OffsetLimit(OrderBy(matching), query.offset, query.limit)
         IN  [status |-> 200, key |-> "data", val |-> "",
              data |-> <<[data |-> [k \in DOMAIN data |-> model_dump(data[k])],
                          total |-> Len(data),
                          limit |-> query.limit,
                          offset |-> query.offset]>>]

get_messages(st, query) ==
    IF ~(query.limit >= LimitMin /\ query.limit <= LimitMax /\ query.offset >= 0)
    THEN RequestValidationError
    ELSE IF query.since # <<>> /\ ~FromIsoFormat(ReplaceZ(query.since[1]))
    THEN HTTPException(422, "since must be ISO-8601 UTC timestamp")
    ELSE LET matching == SelectSeq2(st, query)
             data == OffsetLimit(OrderBy(matching), query.offset, query.limit)
         IN  [status |-> 200, key |-> "data", val |-> "",
              data |-> <<[data |-> [k \in DOMAIN data |-> model_dump(data[k])],
                          total |-> Len(matching),
                          limit |-> query.limit,
                          offset |-> query.offset]>>]

MessagesQueries ==
    [limit : {0, 1, 2}, offset : {0, 1}, from : {<<>>, <<Plus1>>},
     since : {<<>>, <<Ts1>>, <<[Ts1 EXCEPT !.core[3] = 32]>>}, q : {<<>>, <<<<"h">>>>}]

GetRequest(path, query) ==
    [method |-> "GET", path |-> path, body |-> <<>>, sig |-> <<>>, query |-> query]

GetMessages(query) ==
    /\ last = <<>>
    /\ last' = <<log_requests(GetRequest("/messages", <<query>>),
                              Responded(get_messages(store, query), <<>>))>>
    /\ UNCHANGED <<secret, store, pc, cur, created>>

\* --------------------------------------------------------------- GET /stats
Senders(st) == {st[i].from_msisdn : i \in DOMAIN st}

\* SELECT from_msisdn AS "from", COUNT(*) AS count ... GROUP BY from_msisdn
GroupBySender(st) ==
    {[from |-> f, count |-> Cardinality({i \in DOMAIN st : st[i].from_msisdn = f})] :
        f \in Senders(st)}

\* ORDER BY count DESC: every order of the groups with non-increasing
\* counts (groups of equal count come in any order), built from the front:
\* a group of the largest count, then the others in the same way.
RECURSIVE OrderedByCountDesc(_)
OrderedByCountDesc(groups) ==
    IF groups = {} THEN {<<>>}
    ELSE LET largest == {g \in groups : \A h \in groups : h.count <= g.count}
         IN  UNION {{<<g>> \o s : s \in OrderedByCountDesc(groups \ {g})} :
                       g \in largest}

\* LIMIT 10
StatsLimit == 10

\* Mutant of Take: the query without its LIMIT.
Take_all(s, n) == s

Take(s, n) == [k \in 1..(IF Len(s) < n THEN Len(s) ELSE n) |-> s[k]]

TsOf(st) == {st[i].ts : i \in DOMAIN st}

\* SELECT ts FROM messages ORDER BY ts ASC LIMIT 1 / DESC LIMIT 1
FirstTs(st) ==
    IF st = <<>> THEN <<>>
    ELSE <<CHOOSE t \in TsOf(st) : \A u \in TsOf(st) : ~TsLess(u, t)>>

LastTs(st) ==
    IF st = <<>> THEN <<>>
    ELSE <<CHOOSE t \in TsOf(st) : \A u \in TsOf(st) : ~TsLess(t, u)>>

get_stats(st, mps) ==
    [status |-> 200, key |-> "data", val |-> "",
     data |-> <<[total_messages |-> Len(st),
                 senders_count |-> Cardinality(Senders(st)),
                 messages_per_sender |-> Take(mps, StatsLimit),
                 first_message_ts |-> FirstTs(st),
                 last_message_ts |-> LastTs(st)]>>]

GetStats ==
    /\ last = <<>>
    /\ \E mps \in OrderedByCountDesc(GroupBySender(store)) :
           last' = <<log_requests(GetRequest("/stats", <<>>),
                                  Responded(get_stats(store, mps), <<>>))>>
    /\ UNCHANGED <<secret, store, pc, cur, created>>

\* ------------------------------------------------------------------- health
fit_check == JSONResponse("live route working fine", 200)

\* SELECT 1 FROM messages LIMIT 1 succeeds: the table exists from startup on
is_db_ready == TRUE

ready_check(sec) ==
    IF ~is_webhook_secret_set(sec) \/ ~is_db_ready
    THEN JSONResponse("error", 503)
    ELSE JSONResponse("ready route working fine", 200)

HealthLive ==
    /\ last = <<>>
    /\ last' = <<log_requests(GetRequest("/health/live", <<>>), Responded(fit_check, <<>>))>>
    /\ UNCHANGED <<secret, store, pc, cur, created>>

HealthReady ==
    /\ last = <<>>
    /\ last' = <<log_requests(GetRequest("/health/ready", <<>>),
                              Responded(ready_check(secret), <<>>))>>
    /\ UNCHANGED <<secret, store, pc, cur, created>>

\* log_requests returns the response and the server sends it: exchanges are
\* observed one at a time, each in the state its handler left.
ReturnResponse ==
    /\ last # <<>>
    /\ last' = <<>>
    /\ UNCHANGED <<secret, store, pc, cur, created>>

\* -------------------------------------------------------------- the system
Init ==
    /\ secret \in {NoSecret, ConfiguredSecret}
    /\ store = <<>>
    /\ pc = [w \in Workers |-> "idle"]
    /\ cur = [w \in Workers |-> <<>>]
    /\ last = <<>>
    /\ created = <<>>

Next ==
    \/ \E w \in Workers, request \in WebhookRequests : WebhookBegin(w, request)
    \/ \E w \in Workers : WebhookCommit(w)
    \/ \E query \in MessagesQueries : GetMessages(query)
    \/ GetStats
    \/ HealthLive
    \/ HealthReady
    \/ ReturnResponse

Spec == Init /\ [][Next]_vars

\* Deliveries of the same message id arrive one after the other (a sender
\* that waits for the answer before it retries); everything else interleaves.
NextNoOverlap ==
    \/ \E w \in Workers, request \in WebhookRequests : WebhookBeginAlone(w, request)
    \/ \E w \in Workers : WebhookCommit(w)
    \/ \E query \in MessagesQueries : GetMessages(query)
    \/ GetStats
    \/ HealthLive
    \/ HealthReady
    \/ ReturnResponse

SpecNoOverlap == Init /\ [][NextNoOverlap]_vars

\* The system with a database that may fail a round trip.
NextFault ==
    \/ Next
    \/ \E w \in Workers, request \in WebhookRequests, rollback_raises \in BOOLEAN :
           WebhookSelectFails(w, request, rollback_raises)
    \/ \E w \in Workers, rollback_raises \in BOOLEAN :
           WebhookCommitFails(w, rollback_raises)

SpecFault == Init /\ [][NextFault]_vars

\* The system with senders that also deliver messages whose message_id is "".
NextEmptyId ==
    \/ Next
    \/ \E w \in Workers, request \in EmptyIdRequests : WebhookBegin(w, request)

SpecEmptyId == Init /\ [][NextEmptyId]_vars

\* GET /messages over every content of the table: up to MaxStoreRows rows
\* with distinct message ids, two timestamps and two senders, in every
\* insertion order, as a server finds them when it starts on an existing
\* database file.
MaxStoreRows == 3
Ts0 == [Ts1 EXCEPT !.core[3] = 14]
StoreIds == {<<"m", i>> : i \in 1..MaxStoreRows}
TextOf(id) == IF id[2] % 2 = 1 THEN Hello ELSE NoText

StoreRows ==
    {NewRow(WebhookPayload(MkBody(id, f, Plus9, ts, TextOf(id)))) :
        id \in StoreIds, f \in {Plus1, Plus2}, ts \in {Ts0, Ts1}}

Stores ==
    {st \in UNION {[1..n -> StoreRows] : n \in 0..MaxStoreRows} :
        \A i, j \in DOMAIN st : i # j => st[i].message_id # st[j].message_id}

PageQueries ==
    [limit : {1, 2}, offset : {0, 1, 2}, from : {<<>>, <<<<>>>>, <<Plus1>>},
     since : {<<>>, <<Ts1>>}, q : {<<>>, <<<<"h">>>>}]

InitMessages ==
    /\ secret = ConfiguredSecret
    /\ store \in Stores
    /\ pc = [w \in Workers |-> "idle"]
    /\ cur = [w \in Workers |-> <<>>]
    /\ last = <<>>
    /\ created = <<>>

NextMessages ==
    \/ \E query \in PageQueries : GetMessages(query)
    \/ ReturnResponse

SpecMessages == InitMessages /\ [][NextMessages]_vars

\* GET /stats over the stores above and over stores with up to
\* NumStatSenders senders: sender k has sent Count(shape, k) messages, and
\* the rows were inserted sender by sender, first sender first or last
\* sender first.
NumStatSenders == 12
DigitSeq == <<"0", "1", "2", "3", "4", "5", "6", "7", "8", "9">>
Phone(k) == <<"+", DigitSeq[(k \div 10) + 1], DigitSeq[(k % 10) + 1]>>

Shapes == {"distinct", "pairs"}
Count(shape, k) == IF shape = "distinct" THEN k ELSE (k + 1) \div 2

RECURSIVE SenderRuns(_, _)
SenderRuns(shape, n) ==
    IF n = 0 THEN <<>>
    ELSE SenderRuns(shape, n - 1) \o [i \in 1..Count(shape, n) |-> n]

Reverse(s) == [i \in 1..Len(s) |-> s[Len(s) + 1 - i]]

RowsOfSenders(ks) ==
    [i \in 1..Len(ks) |->
        NewRow(WebhookPayload(MkBody(<<"m", i>>, Phone(ks[i]), Plus9, Ts1, NoText)))]

ManySenderStores ==
    UNION {{RowsOfSenders(SenderRuns(shape, n)),
            RowsOfSenders(Reverse(SenderRuns(shape, n)))} :
               shape \in Shapes, n \in 1..NumStatSenders}

InitStats ==
    /\ secret = ConfiguredSecret
    /\ store \in Stores \cup ManySenderStores
    /\ pc = [w \in Workers |-> "idle"]
    /\ cur = [w \in Workers |-> <<>>]
    /\ last = <<>>
    /\ created = <<>>

NextStats ==
    \/ GetStats
    \/ ReturnResponse

SpecStats == InitStats /\ [][NextStats]_vars

\* ------------------------------------------------------------------ claims
IsWebhook(x) == x.req.method = "POST" /\ x.req.path = "/webhook"
BodyOf(x) == x.req.body[1]
HasRow(st, id) == \E i \in DOMAIN st : st[i].message_id = id
RowsOf(st, id) == {i \in DOMAIN st : st[i].message_id = id}

\* The request's signature is the hex HMAC-SHA256 of its raw body under the
\* configured secret.
CorrectlySigned(req) ==
    /\ secret # NoSecret
    /\ req.sig = <<HexDigest(secret, req.body[1])>>

\* A delivery that ought to be accepted: secret configured, correct
\* signature, valid payload.
Deliverable(x) ==
    /\ IsWebhook(x)
    /\ CorrectlySigned(x.req)
    /\ PayloadValid(BodyOf(x))

AuditOutcome(x, result, dup) ==
    /\ Len(x.audit) = 1
    /\ x.audit[1].extra =
           <<[result |-> result, dup |-> dup, message_id |-> BodyOf(x).message_id]>>

Completes == last = <<>> /\ last' # <<>>

C2_RowsNeverChange ==
    [][\A i \in DOMAIN store :
          /\ \E j \in DOMAIN store' : store'[j] = store[i]
          /\ \A j \in DOMAIN store' :
                 store'[j].message_id = store[i].message_id => store'[j] = store[i]]_vars

\* A correctly signed delivery with a stored message id and other from/text
\* has been answered, and the stored row differs from its payload.
C2_Witness ==
    /\ last # <<>>
    /\ Deliverable(last[1])
    /\ last[1].resp = OkResponse
    /\ \E i \in DOMAIN store :
           /\ store[i].message_id = BodyOf(last[1]).message_id
           /\ store[i].from_msisdn # BodyOf(last[1]).from
           /\ store[i].text # BodyOf(last[1]).text

\* C3: the store holds at most one row per message id.
C3_UniqueMessageId ==
    \A i, j \in DOMAIN store : store[i].message_id = store[j].message_id => i = j

\* An accepted body has been replayed and its message id has one row.
C3_Witness ==
    /\ last # <<>>
    /\ Deliverable(last[1])
    /\ AuditOutcome(last[1], "duplicate", TRUE)
    /\ Cardinality(RowsOf(store, BodyOf(last[1]).message_id)) = 1
    /\ \E i \in DOMAIN store : store[i] = NewRow(WebhookPayload(BodyOf(last[1])))

\* C4: at most one request per message id obtains the outcome "created".
C4_AtMostOneCreated ==
    \A i, j \in DOMAIN created : created[i] = created[j] => i = j

\* Two deliveries of a fresh message id raced: one was answered "created"
\* and the other has just been answered after its INSERT was rejected.
C4_Witness ==
    /\ last # <<>>
    /\ Deliverable(last[1])
    /\ AuditOutcome(last[1], None, FALSE)
    /\ \E k \in DOMAIN created : created[k] = BodyOf(last[1]).message_id

\* C5: a request whose INSERT is rejected by the primary key (the row
\* appeared between its SELECT and its COMMIT) is given the outcome
\* "duplicate": status 200, audit result "duplicate", dup=true.
C5_RaceLoserIsDuplicate ==
    [][\A w \in Workers :
          (/\ pc[w] = "selected"
           /\ pc'[w] = "idle"
           /\ HasRow(store, cur[w][1].body[1].message_id))
          => /\ last' # <<>>
             /\ last'[1].resp = OkResponse
             /\ AuditOutcome(last'[1], "duplicate", TRUE)]_vars

\* C6: with the secret configured, a POST /webhook without X-Signature is
\* answered 401 {"detail":"invalid_signature"}, whatever its body.
C6_MissingSignatureIs401 ==
    (/\ last # <<>>
     /\ IsWebhook(last[1])
     /\ secret # NoSecret
     /\ last[1].req.sig = <<>>)
    => last[1].resp = HTTPException(401, "invalid_signature")

\* C7: with the secret configured, a POST /webhook whose X-Signature differs
\* from the hex HMAC-SHA256 of the raw body is answered
\* 401 {"detail":"invalid_signature"} with audit result "invalid_signature".
C7_BadSignatureIs401 ==
    (/\ last # <<>>
     /\ IsWebhook(last[1])
     /\ secret # NoSecret
     /\ last[1].req.sig # <<>>
     /\ ~CorrectlySigned(last[1].req))
    => /\ last[1].resp = HTTPException(401, "invalid_signature")
       /\ AuditOutcome(last[1], "invalid_signature", FALSE)

\* C8: signature verification never raises: a valid payload sent with any
\* signature value other than the expected one (empty, not hex, not ASCII)
\* is answered 401 and has an audit record.
C8_VerificationNeverRaises ==
    (/\ last # <<>>
     /\ IsWebhook(last[1])
     /\ secret # NoSecret
     /\ PayloadValid(BodyOf(last[1]))
     /\ last[1].req.sig # <<>>
     /\ ~CorrectlySigned(last[1].req))
    => /\ last[1].resp.status = 401
       /\ Len(last[1].audit) = 1

\* C9: the gates run in the order secret configured, signature present,
\* signature valid, payload valid, insert, and the first failing gate alone
\* determines the response.  (Stated for the signature values whose
\* comparison yields a result; the others are C8's.)
FirstFailingGate(req) ==
    IF secret = NoSecret THEN "secret"
    ELSE IF req.sig = <<>> \/ req.sig = <<EmptySig>> THEN "signature_present"
    ELSE IF ~CorrectlySigned(req) THEN "signature_valid"
    ELSE IF ~PayloadValid(req.body[1]) THEN "payload"
    ELSE "none"

C9_GatesInOrder ==
    (/\ last # <<>>
     /\ IsWebhook(last[1])
     /\ last[1].req.sig # <<NonAsciiSig>>)
    => LET gate == FirstFailingGate(last[1].req)
           resp == last[1].resp
       IN  /\ gate = "secret" => resp = HTTPException(401, "webhook missing")
           /\ gate \in {"signature_present", "signature_valid"}
                  => resp = HTTPException(401, "invalid_signature")
           /\ gate = "payload" => resp.status \in {422, 500}
           /\ gate = "none" => resp = OkResponse

\* C10: a row is added only by the COMMIT of a request that passed every
\* gate (secret configured, signature present and valid, payload valid),
\* and a request answered with a rejection leaves the store as it was.
PassedEveryGate(req) ==
    /\ req.sig # <<>>
    /\ CorrectlySigned(req)
    /\ PayloadValid(req.body[1])

C10_OnlyAcceptedRequestsInsert ==
    [][/\ store' # store =>
              \E w \in Workers :
                  /\ pc[w] = "selected"
                  /\ pc'[w] = "idle"
                  /\ PassedEveryGate(cur[w][1])
                  /\ store' = Append(store, NewRow(WebhookPayload(cur[w][1].body[1])))
       /\ (Completes /\ IsWebhook(last'[1]) /\ last'[1].resp.status >= 400)
              => store' = store]_vars

\* A request has been rejected while the store holds rows.
C10_Witness ==
    /\ last # <<>>
    /\ IsWebhook(last[1])
    /\ last[1].resp.status >= 400
    /\ store # <<>>

\* C11: every HTTP request produces exactly one audit record, on every
\* path, a handler that fails unexpectedly included.
C11_OneAuditRecordPerRequest ==
    last # <<>> => Len(last[1].audit) = 1

\* C12: the audit record of every POST /webhook request carries result, dup
\* and message_id with a non-null result that names the outcome; a request
\* rejected for its payload has result "validation_error".
C12_WebhookAuditNamesOutcome ==
    (/\ last # <<>>
     /\ IsWebhook(last[1])
     /\ Len(last[1].audit) = 1)
    => LET a == last[1].audit[1]
       IN  /\ a.extra # <<>>
           /\ a.extra[1].result # None
           /\ (a.status = 422 => a.extra[1].result = "validation_error")

\* C13: when the insert of an authenticated, valid request fails with a
\* persistence error other than a key conflict (no row for the message id
\* before the step, none after it), the request is answered
\* 500 {"detail":"Internal server error"} and its audit record has result
\* "validation_error" at level ERROR.
C13_StorageFailureIs500 ==
    [][\A w \in Workers :
          (/\ pc[w] = "selected"
           /\ pc'[w] = "idle"
           /\ ~HasRow(store, cur[w][1].body[1].message_id)
           /\ ~HasRow(store', cur[w][1].body[1].message_id))
          => /\ last' # <<>>
             /\ last'[1].resp = HTTPException(500, "Internal server error")
             /\ AuditOutcome(last'[1], "validation_error", FALSE)
             /\ last'[1].audit[1].level = "ERROR"]_vars

\* C20: whenever POST /webhook answers 200 {"status":"ok"} for a message id,
\* a row with that message id is in the store, whatever the interleaving of
\* deliveries and whatever the outcome of the insert.
C20_OkMeansStored ==
    (/\ last # <<>>
     /\ IsWebhook(last[1])
     /\ last[1].resp = OkResponse)
    => HasRow(store, BodyOf(last[1]).message_id)

\* C19: every audit record has level "INFO" exactly when its status is
\* below 400 and "ERROR" otherwise, and for POST /webhook only the outcomes
\* created and duplicate are logged at INFO: a request that ended in an
\* authentication, validation or storage failure is logged at ERROR.
C19_LevelFollowsOutcome ==
    (last # <<>> /\ Len(last[1].audit) = 1)
    => LET a == last[1].audit[1]
       IN  /\ a.level = (IF a.status < 400 THEN "INFO" ELSE "ERROR")
           /\ (IsWebhook(last[1]) /\ a.level = "INFO")
                  => /\ a.extra # <<>>
                     /\ a.extra[1].result \in {"created", "duplicate"}

\* C14: a correctly signed webhook request whose message_id is the empty
\* string is rejected with a client-error (4xx) response, and no row with an
\* empty message_id is ever present in the store.
C14_EmptyMessageIdRejected ==
    /\ (/\ last # <<>> /\ IsWebhook(last[1])
        /\ BodyOf(last[1]).message_id = EmptyId
        /\ CorrectlySigned(last[1].req))
       => last[1].resp.status \in 400..499
    /\ ~HasRow(store, EmptyId)

\* GET /messages answered 200: its query and the returned page.
IsMessagesPage(x) ==
    /\ x.req.method = "GET" /\ x.req.path = "/messages"
    /\ x.resp.status = 200
QueryOf(x) == x.req.query[1]
PageOf(x) == x.resp.data[1]

\* The stored rows a query's filters select, and how many of them sort
\* before row i by (ts, message_id).
MatchingRows(st, query) == {i \in DOMAIN st : Matches(st[i], query)}
Rank(st, query, i) ==
    Cardinality({j \in MatchingRows(st, query) : RowBefore(st[j], st[i])})

\* C15: for every store content and every limit/offset, the data list of
\* GET /messages is the slice [offset, offset+limit) of the matching rows
\* sorted by (ts ascending, message_id ascending), whatever the insertion
\* order: its k-th element is the matching row with exactly offset+k-1
\* matching rows before it, and it has min(limit, max(0, matches-offset))
\* elements, hence at most limit.
C15_DataIsSortedSlice ==
    (last # <<>> /\ IsMessagesPage(last[1]))
    => LET query == QueryOf(last[1])
           data == PageOf(last[1]).data
           n == Cardinality(MatchingRows(store, query))
           rest == IF n - query.offset < 0 THEN 0 ELSE n - query.offset
       IN  /\ Len(data) = (IF rest < query.limit THEN rest ELSE query.limit)
           /\ Len(data) <= query.limit
           /\ \A k \in DOMAIN data :
                  \E i \in MatchingRows(store, query) :
                      /\ Rank(store, query, i) = query.offset + k - 1
                      /\ data[k] = model_dump(store[i])

\* A page of two rows taken from offset 1 whose rows were inserted in the
\* opposite of their sorted order.
C15_Witness ==
    /\ last # <<>> /\ IsMessagesPage(last[1])
    /\ QueryOf(last[1]).offset = 1
    /\ Len(PageOf(last[1]).data) = 2
    /\ \E i, j \in DOMAIN store :
           /\ i > j
           /\ PageOf(last[1]).data[1] = model_dump(store[i])
           /\ PageOf(last[1]).data[2] = model_dump(store[j])

\* C16: the total of GET /messages is the number of stored rows matching
\* the filters from, since and q: a number fixed by the store and the
\* filters alone, the same for every limit and offset.
C16_TotalCountsAllMatches ==
    (last # <<>> /\ IsMessagesPage(last[1]))
    => PageOf(last[1]).total =
           Cardinality({i \in DOMAIN store :
               Matches(store[i], [QueryOf(last[1]) EXCEPT !.limit = LimitMax,
                                                          !.offset = 0])})

\* A filtered page that holds fewer rows than match and leaves out a
\* stored row.
C16_Witness ==
    /\ last # <<>> /\ IsMessagesPage(last[1])
    /\ QueryOf(last[1]).from = <<Plus1>>
    /\ QueryOf(last[1]).offset = 1
    /\ PageOf(last[1]).total = 2
    /\ Len(PageOf(last[1]).data) = 1
    /\ Len(store) = 3

\* C17 as stated: when GET /messages is called with from=S, every row of
\* the returned data has from equal to S, for every store content.
C17_FromFilterAnyS ==
    (/\ last # <<>> /\ IsMessagesPage(last[1])
     /\ QueryOf(last[1]).from # <<>>)
    => \A k \in DOMAIN PageOf(last[1]).data :
           PageOf(last[1]).data[k].from = QueryOf(last[1]).from[1]

\* C17, amended: when GET /messages is called with a non-empty from=S,
\* every row of the returned data has from equal to S, for every store
\* content (an empty from is treated as no filter).
C17_FromFilterNonEmptyS ==
    (/\ last # <<>> /\ IsMessagesPage(last[1])
     /\ QueryOf(last[1]).from # <<>>
     /\ QueryOf(last[1]).from[1] # <<>>)
    => \A k \in DOMAIN PageOf(last[1]).data :
           PageOf(last[1]).data[k].from = QueryOf(last[1]).from[1]

\* A page filtered by a sender while the store holds a row of another one.
C17_Witness ==
    /\ last # <<>> /\ IsMessagesPage(last[1])
    /\ QueryOf(last[1]).from = <<Plus1>>
    /\ QueryOf(last[1]).since = <<>> /\ QueryOf(last[1]).q = <<>>
    /\ Len(PageOf(last[1]).data) >= 1
    /\ \E i \in DOMAIN store : store[i].from_msisdn = Plus2

\* GET /stats answered 200 and its messages_per_sender list.
IsStats(x) ==
    /\ x.req.method = "GET" /\ x.req.path = "/stats"
    /\ x.resp.status = 200
PerSender(x) == x.resp.data[1].messages_per_sender
StoredBy(st, f) == Cardinality({i \in DOMAIN st : st[i].from_msisdn = f})
Listed(x) == {PerSender(x)[k].from : k \in DOMAIN PerSender(x)}

\* C18: for every store content, messages_per_sender of GET /stats has at
\* most 10 entries, its counts are non-increasing, each sender is listed at
\* most once with count equal to its number of stored rows, and no omitted
\* sender has a larger count than a listed one.
C18_TopSendersByCount ==
    (last # <<>> /\ IsStats(last[1]))
    => LET mps == PerSender(last[1])
       IN  /\ Len(mps) <= 10
           /\ \A i, j \in DOMAIN mps : i < j => mps[i].count >= mps[j].count
           /\ \A i, j \in DOMAIN mps : i # j => mps[i].from # mps[j].from
           /\ \A i \in DOMAIN mps :
                  /\ mps[i].from \in Senders(store)
                  /\ mps[i].count = StoredBy(store, mps[i].from)
           /\ \A f \in Senders(store) \ Listed(last[1]) :
                  \A i \in DOMAIN mps : StoredBy(store, f) <= mps[i].count

\* A list cut at ten entries while the store holds more senders, one of
\* them left out with the same count as the last one listed, and whose
\* rows were not inserted in the listed order.
C18_Witness ==
    /\ last # <<>> /\ IsStats(last[1])
    /\ Len(PerSender(last[1])) = 10
    /\ Cardinality(Senders(store)) > 10
    /\ \E f \in Senders(store) \ Listed(last[1]) :
           StoredBy(store, f) = PerSender(last[1])[10].count
    /\ store[1].from_msisdn # PerSender(last[1])[1].from

====
